---- MODULE Spec2Model ----
(***************************************************************************)
(* Model of the streaming zip engine of isic-zipstreamer: retryableGet,    *)
(* ZipStream.StreamAllFiles, NewZipStream, Server.streamEntries and        *)
(* closeForError.  One HTTP download request is followed from the moment   *)
(* streamEntries is entered until the handler has returned (or panicked).  *)
(*                                                                         *)
(* The repository holds two revisions of zip_streamer.go.  They differ     *)
(* only in retryableGet; the variable build says which one is compiled in: *)
(*   "s3"     - the revision with getS3Object (src/unnamed/part_001)       *)
(*   "legacy" - src/zip_streamer/zip_streamer.go                           *)
(*                                                                         *)
(* The link cache shared by the requests is followed under a second        *)
(* specification, SpecCache: HandleCreateLink and HandleDownloadLink of     *)
(* concurrent requests against one LinkCache while time passes.            *)
(***************************************************************************)
EXTENDS Integers, Sequences, FiniteSets, TLC

\* ------------------------------------------------------------- bounds
\* Longest entry list of a request.
MaxEntries == 2

\* Concurrent download-link requests followed under SpecCache.
MaxRequests == 2

\* Seconds the clock of SpecCache runs for, and the seconds of one tick.
MaxClock == 80
TickSeconds == 20

\* ------------------------------------------------------------- constants
NUM_RETRIES == 5

retryableStatusCodes == {408, 429, 500, 502, 503, 504}

\* Statuses an upstream answers with on the generic HTTP path.
Statuses == {200, 404} \cup retryableStatusCodes

\* Source locations: one plain HTTP URL, one object-store URL.
HttpUrl == "https://host/a"
S3Url == "https://isic-storage.s3.amazonaws.com/b"
Urls == {HttpUrl, S3Url}

\* strings.Contains(urlStr, "isic-storage")
ContainsIsicStorage(u) == u = S3Url

Paths == {"a.txt", "b/c.txt"}
Entry == [url : Urls, path : Paths]

\* Bodies a 200 answer (or an object-store read) can carry, and the body of
\* a 404 page.
OkBodies == {<< >>, <<104, 105>>}
NotFoundBody == <<110, 111>>
BodyOf(status) == IF status = 200 THEN OkBodies ELSE {NotFoundBody}

Builds == {"s3", "legacy"}

NoResp == [status |-> 0, body |-> << >>]

\* Outcome of one attempt: a transport (or object-store) error, or a response.
NoAttempt == [kind |-> "none", code |-> 0]
ErrorOutcome == [kind |-> "error", code |-> 0]
StatusOutcome(s) == [kind |-> "status", code |-> s]

RECURSIVE SeqsUpTo(_, _)
SeqsUpTo(S, n) ==
    IF n = 0 THEN {<< >>}
    ELSE LET shorter == SeqsUpTo(S, n - 1)
         IN  shorter \cup {Append(s, e) : s \in {t \in shorter : Len(t) = n - 1}, e \in S}

VARIABLES
    build,       \* which revision of retryableGet is compiled in
    entries,     \* zipDescriptor.Files()
    pc,          \* position of the request handler
    status,      \* HTTP status written to w (0: none yet)
    zipHeaders,  \* Content-Type / Content-Disposition set on w
    errorBody,   \* the JSON error body written to w ("" if none)
    conn,        \* the underlying connection: "open" or "closed"
    idx,         \* 1-based index of the entry the loop is at
    i,           \* retryableGet: loop counter
    sleeps,      \* retryableGet: the durations slept in the current call
    last,        \* retryableGet: outcome of the latest attempt of the call
    resp,        \* StreamAllFiles: resp of the current entry (NoResp = nil)
    entryFailed, \* StreamAllFiles: entryFailed of the current entry
    success,     \* StreamAllFiles: success
    members,     \* zipWriter: the members opened so far
    flushed,     \* number of members whose header and content reached the sink
    bufErr,      \* zipWriter: sticky error of its buffered writer
    sinkOk,      \* the sink accepts writes (client still connected)
    closeCalls,  \* number of calls of zipWriter.Close
    finalized,   \* central directory written and handed to the sink
    result,      \* what StreamAllFiles returned ("none" before it returns)
    failStage,   \* where StreamAllFiles returned an error from
    fetchLog,    \* per processed entry: how its retryableGet call ended
    closes,      \* per processed entry: calls of resp.Body.Close
    flusher,     \* the sink implements http.Flusher
    handed,      \* number of members whose bytes were passed to the sink's Write
    sinkFlushes, \* calls of the sink's Flush
    cache,       \* Server.linkCache: link id -> record
    clock,       \* seconds since the server started
    stored,      \* per link id: what HandleCreateLink passed to Set, and when
    dl           \* the HandleDownloadLink requests in flight

\* The state of one transfer, and the state around the link cache.
svars == <<build, entries, pc, status, zipHeaders, errorBody, conn, idx, i,
           sleeps, last, resp, entryFailed, success, members, flushed, bufErr,
           sinkOk, closeCalls, finalized, result, failStage, fetchLog, closes,
           flusher, handed, sinkFlushes>>
cvars == <<cache, clock, stored, dl>>

vars == <<svars, cvars>>

\* Link ids (uuid.New().String()) and the descriptors a client registers.
LinkIds == {"id1", "id2"}
Descriptors == {"d1", "d2"}
NilDescriptor == "nil"

NoRecord == [present |-> FALSE, req |-> NilDescriptor, at |-> 0]
IdleRequest ==
    [pc |-> "idle", id |-> "id1", got |-> NilDescriptor, age |-> "unset",
     status |-> 0, streams |-> FALSE]

CacheInit ==
    /\ cache = [id \in LinkIds |-> NoRecord]
    /\ clock = 0
    /\ stored = [id \in LinkIds |-> NoRecord]
    /\ dl = [r \in 1..MaxRequests |-> IdleRequest]

Init ==
    /\ build \in Builds
    /\ entries \in SeqsUpTo(Entry, MaxEntries)
    /\ pc = "start"
    /\ status = 0
    /\ zipHeaders = FALSE
    /\ errorBody = ""
    /\ conn = "open"
    /\ idx = 0
    /\ i = 0
    /\ sleeps = << >>
    /\ last = NoAttempt
    /\ resp = NoResp
    /\ entryFailed = FALSE
    /\ success = 0
    /\ members = << >>
    /\ flushed = 0
    /\ bufErr = FALSE
    /\ sinkOk = TRUE
    /\ closeCalls = 0
    /\ finalized = FALSE
    /\ result = "none"
    /\ failStage = "none"
    /\ fetchLog = << >>
    /\ closes = << >>
    /\ flusher \in BOOLEAN
    /\ handed = 0
    /\ sinkFlushes = 0
    /\ CacheInit

\* ------------------------------------------------------------- helpers
Min(a, b) == IF a < b THEN a ELSE b

\* isS3URL := strings.Contains(urlStr, "isic-storage"); the legacy revision
\* has no object-store path.
isS3URL(u) == build = "s3" /\ ContainsIsicStorage(u)

\* sleepDuration = min(2^i, 30) seconds
sleepDuration(k) == Min(2 ^ k, 30)

\* Mutant of SleepsAfterError: the sleep is not guarded by the attempt number.
SleepsAfterErrorAlways(k) == TRUE

\* Whether attempt k, having ended in an error, is followed by a sleep.
SleepsAfterError(k) == IF build = "s3" THEN k < NUM_RETRIES - 1 ELSE TRUE

\* Whether attempt k, having ended in a retryable status, is followed by a
\* sleep: time.Sleep is unconditional in both revisions.
SleepsAfterRetryableStatus(k) == TRUE

\* Mutant of IsRetryableStatus: every status of 400 and above is retried.
IsRetryableStatusAnyError(s) == s >= 400

\* slices.Contains(retryableStatusCodes, resp.StatusCode)
IsRetryableStatus(s) == s \in retryableStatusCodes

\* The loop condition of retryableGet.
MayAttempt(k) == k < NUM_RETRIES

\* Mutant of NewZipStreamFails: the length test is lost.
NewZipStreamNeverFails(es) == Len(es) < 0

\* NewZipStream: len(entries) == 0
NewZipStreamFails(es) == Len(es) = 0

\* header.Name = entry.ZipPath()
HeaderName(e) == e.path

\* Mutant of CopiedBytes: the copy stops one byte short.
CopiedBytesDropsTail(b) == IF Len(b) > 0 THEN SubSeq(b, 1, Len(b) - 1) ELSE b

\* io.Copy(entryWriter, resp.Body) writes every byte of the body.
CopiedBytes(b) == b

\* success++ at the end of the loop body, whatever entryFailed is.
SuccessAfterEntry(s, failed) == s + 1

\* Mutant of MoreEntries: the loop stops one entry short.
MoreEntriesStopsShort(k, n) == k + 1 < n

\* for _, entry := range z.entries: after entry k of n there is another one.
MoreEntries(k, n) == k < n

\* Mutant of RunDefers: only the body fetched last is closed (one Close after
\* the loop instead of a defer per entry).
RunDefersLastOnly(cl, log) ==
    [k \in DOMAIN cl |-> IF log[k].err = "nil" /\ k = Len(cl) THEN cl[k] + 1 ELSE cl[k]]

\* Mutant of HandedAfterFlush: the flush of the zip writer is left out.
HandedWithoutFlush(h, ms, err) == h

\* zipWriter.Flush(): the buffered writer passes all it holds, the bytes of
\* every member written so far, to the sink's Write, unless it already holds
\* an error.
HandedAfterFlush(h, ms, err) == IF err THEN h ELSE Len(ms)

\* The deferred resp.Body.Close() calls, run when StreamAllFiles unwinds.
RunDefers(cl, log) ==
    [k \in DOMAIN cl |-> IF log[k].err = "nil" THEN cl[k] + 1 ELSE cl[k]]

\* Mutant of CloseLast: the member before is left open.
CloseLastNever(ms) == ms

\* What zipWriter.CreateHeader and zipWriter.Close do first: the member
\* written last, if any, is closed and its data descriptor emitted.
CloseLast(ms) ==
    IF Len(ms) = 0 THEN ms ELSE [ms EXCEPT ![Len(ms)].closed = TRUE]

Streaming == pc \in {"fetch", "header", "copy", "flush", "finish"}

\* ------------------------------------------------------------- retryableGet
\* The variables no step of retryableGet touches.
GetFrame ==
    UNCHANGED <<build, entries, status, zipHeaders, errorBody, conn, idx,
                success, members, flushed, bufErr, sinkOk, closeCalls,
                finalized, result, failStage, flusher, handed, sinkFlushes,
                cvars>>

\* retryableGet returns (r, e) and StreamAllFiles takes it up: entryFailed is
\* set on an error, resp.Body.Close is deferred otherwise.
GetReturns(r, e) ==
    /\ resp' = r
    /\ entryFailed' = (e # "nil")
    /\ fetchLog' = Append(fetchLog, [err |-> e, status |-> r.status, body |-> r.body])
    /\ closes' = Append(closes, 0)
    /\ i' = 0
    /\ sleeps' = << >>
    /\ last' = NoAttempt
    /\ pc' = "header"
    /\ GetFrame

\* The attempt ended without a result: sleep (or not) and go round the loop.
GetRetries(outcome, doSleep) ==
    /\ last' = outcome
    /\ sleeps' = IF doSleep THEN Append(sleeps, sleepDuration(i)) ELSE sleeps
    /\ i' = i + 1
    /\ UNCHANGED <<pc, resp, entryFailed, fetchLog, closes>>
    /\ GetFrame

\* resp.StatusCode read through a nil resp: the goroutine panics, the deferred
\* closes run while the stack unwinds and the handler never returns.
GetPanics ==
    /\ last' = ErrorOutcome
    /\ fetchLog' = Append(fetchLog, [err |-> "panic", status |-> 0, body |-> << >>])
    /\ closes' = RunDefers(Append(closes, 0), fetchLog')
    /\ pc' = "panic"
    /\ UNCHANGED <<i, sleeps, resp, entryFailed>>
    /\ GetFrame

\* One attempt on the object-store path: getS3Object.
AttemptS3 ==
    /\ pc = "fetch"
    /\ MayAttempt(i)
    /\ isS3URL(entries[idx].url)
    /\ \/ \E b \in OkBodies : GetReturns([status |-> 200, body |-> b], "nil")
       \/ GetRetries(ErrorOutcome, SleepsAfterError(i))

\* One attempt on the generic path: http.DefaultClient.Do.
AttemptHttp ==
    /\ pc = "fetch"
    /\ MayAttempt(i)
    /\ ~isS3URL(entries[idx].url)
    /\ \/ \* transport error: resp is nil
          IF build = "s3"
          THEN \* Do's error went to the err of the else block; the outer err
               \* is nil, so resp.StatusCode is evaluated on a nil resp
               GetPanics
          ELSE GetRetries(ErrorOutcome, SleepsAfterError(i))
       \/ \E s \in Statuses :
             IF IsRetryableStatus(s)
             THEN GetRetries(StatusOutcome(s), SleepsAfterRetryableStatus(i))
             ELSE \E b \in BodyOf(s) : GetReturns([status |-> s, body |-> b], "nil")

\* The loop ran out: return nil and the error.
Exhausted ==
    /\ pc = "fetch"
    /\ ~MayAttempt(i)
    /\ GetReturns(NoResp,
                  IF isS3URL(entries[idx].url) /\ last.kind = "error"
                  THEN "s3 error" ELSE "max retries exceeded")

\* ------------------------------------------------------------- StreamAllFiles
\* The variables of the HTTP response and of the request.
ReqFrame ==
    UNCHANGED <<build, entries, status, zipHeaders, errorBody, conn, flusher,
                cvars>>

\* Mutant of Returns: an error of CreateHeader or io.Copy is recorded but the
\* loop goes on to the flush instead of returning.
ReturnsAfterLoopOnly(e, stage) ==
    /\ result' = e
    /\ failStage' = stage
    /\ IF stage \in {"header", "copy"}
       THEN pc' = "flush" /\ closes' = closes
       ELSE pc' = "returned" /\ closes' = RunDefers(closes, fetchLog)

\* StreamAllFiles returns e from stage: the deferred closes run.
Returns(e, stage) ==
    /\ result' = e
    /\ failStage' = stage
    /\ closes' = RunDefers(closes, fetchLog)
    /\ pc' = "returned"

\* zipWriter.CreateHeader(header): closes the member before it (its data
\* descriptor goes into the buffer) and writes the local header.  It fails
\* when the buffered writer already holds an error, or when the header fills
\* the buffer and the sink refuses the write.
CreateHeader ==
    /\ pc = "header"
    /\ \/ /\ ~bufErr
          /\ members' = Append(CloseLast(members),
                               [name |-> HeaderName(entries[idx]),
                                data |-> << >>, closed |-> FALSE])
          /\ pc' = "copy"
          /\ UNCHANGED <<bufErr, result, failStage, closes>>
       \/ /\ bufErr \/ ~sinkOk
          /\ bufErr' = TRUE
          /\ Returns("write error", "header")
          /\ UNCHANGED members
    /\ UNCHANGED <<idx, i, sleeps, last, resp, entryFailed, success, flushed,
                   sinkOk, closeCalls, finalized, fetchLog, handed, sinkFlushes>>
    /\ ReqFrame

\* if !entryFailed { io.Copy(entryWriter, resp.Body) }.  The copy fails when a
\* read of the body fails (never for the in-memory body of getS3Object) or
\* when a write of a non-empty body reaches a sink that refuses it.
CopyBody ==
    /\ pc = "copy"
    /\ IF entryFailed
       THEN /\ pc' = "flush"
            /\ UNCHANGED <<members, bufErr, result, failStage, closes>>
       ELSE \/ /\ Len(resp.body) = 0 \/ ~bufErr
               /\ members' = [members EXCEPT ![Len(members)].data = CopiedBytes(resp.body)]
               /\ pc' = "flush"
               /\ UNCHANGED <<bufErr, result, failStage, closes>>
            \/ /\ Len(resp.body) > 0
               /\ bufErr \/ ~sinkOk
               /\ bufErr' = TRUE
               /\ Returns("write error", "copy")
               /\ UNCHANGED members
            \/ /\ ~isS3URL(entries[idx].url)
               /\ Returns("read error", "copy")
               /\ UNCHANGED <<members, bufErr>>
    /\ UNCHANGED <<idx, i, sleeps, last, resp, entryFailed, success, flushed,
                   sinkOk, closeCalls, finalized, fetchLog, handed, sinkFlushes>>
    /\ ReqFrame

\* zipWriter.Flush() (its error is dropped), the sink's Flush, success++ and
\* the next round of the loop.
FlushMember ==
    /\ pc = "flush"
    /\ IF bufErr
       THEN UNCHANGED <<flushed, bufErr>>
       ELSE IF sinkOk
            THEN flushed' = Len(members) /\ UNCHANGED bufErr
            ELSE bufErr' = TRUE /\ UNCHANGED flushed
    /\ handed' = HandedAfterFlush(handed, members, bufErr)
    /\ sinkFlushes' = IF flusher THEN sinkFlushes + 1 ELSE sinkFlushes
    /\ success' = SuccessAfterEntry(success, entryFailed)
    /\ IF MoreEntries(idx, Len(entries))
       THEN /\ idx' = idx + 1
            /\ pc' = "fetch"
       ELSE /\ pc' = "finish"
            /\ UNCHANGED idx
    /\ resp' = NoResp
    /\ entryFailed' = FALSE
    /\ UNCHANGED <<i, sleeps, last, members, sinkOk, closeCalls, finalized,
                   result, failStage, fetchLog, closes>>
    /\ ReqFrame

\* After the loop: the all-failed test, else zipWriter.Close(), which closes
\* the last member, writes the central directory and flushes.
Finish ==
    /\ pc = "finish"
    /\ IF success = 0
       THEN /\ Returns("empty file - all files failed", "allfailed")
            /\ UNCHANGED <<members, flushed, bufErr, closeCalls, finalized,
                           handed>>
       ELSE /\ closeCalls' = closeCalls + 1
            /\ handed' = HandedAfterFlush(handed, members, bufErr)
            /\ IF bufErr \/ ~sinkOk
               THEN /\ bufErr' = TRUE
                    /\ Returns("write error", "close")
                    /\ UNCHANGED <<members, flushed, finalized>>
               ELSE /\ members' = CloseLast(members)
                    /\ flushed' = Len(members)
                    /\ finalized' = TRUE
                    /\ Returns("nil", "none")
                    /\ UNCHANGED bufErr
    /\ UNCHANGED <<idx, i, sleeps, last, resp, entryFailed, success, sinkOk,
                   fetchLog, sinkFlushes>>
    /\ ReqFrame

\* The client goes away while the archive is streamed: from now on the sink
\* refuses writes.
ClientDisconnects ==
    /\ Streaming
    /\ sinkOk
    /\ sinkOk' = FALSE
    /\ UNCHANGED <<build, entries, pc, status, zipHeaders, errorBody, conn,
                   idx, i, sleeps, last, resp, entryFailed, success, members,
                   flushed, bufErr, closeCalls, finalized, result, failStage,
                   fetchLog, closes, flusher, handed, sinkFlushes, cvars>>

\* ------------------------------------------------------------- streamEntries
StreamFrame ==
    UNCHANGED <<build, entries, i, sleeps, last, resp, entryFailed, success,
                members, flushed, bufErr, sinkOk, closeCalls, finalized,
                result, failStage, fetchLog, closes, flusher, handed,
                sinkFlushes, cvars>>

\* NewZipStream failed: 400 and the error body, nothing else.
RejectEntries ==
    /\ pc = "start"
    /\ NewZipStreamFails(entries)
    /\ status' = 400
    /\ errorBody' = "invalid entries"
    /\ pc' = "handled"
    /\ UNCHANGED <<zipHeaders, conn, idx>>
    /\ StreamFrame

\* The zip headers and the 200 status are written, StreamAllFiles is entered.
BeginStream ==
    /\ pc = "start"
    /\ ~NewZipStreamFails(entries)
    /\ zipHeaders' = TRUE
    /\ status' = 200
    /\ idx' = 1
    /\ pc' = "fetch"
    /\ UNCHANGED <<errorBody, conn>>
    /\ StreamFrame

\* What w offers to closeForError: no http.Hijacker, a Hijack that fails, or a
\* Hijack that hands out the connection.
Hijacks == {"none", "error", "ok"}

\* closeForError(w): the connection is closed only when it could be hijacked.
closeForError(h) == IF h = "ok" THEN "closed" ELSE conn

\* StreamAllFiles has returned: closeForError on an error, then the handler
\* returns.
EndStream ==
    /\ pc = "returned"
    /\ IF result # "nil"
       THEN \E h \in Hijacks : conn' = closeForError(h)
       ELSE UNCHANGED conn
    /\ pc' = "handled"
    /\ UNCHANGED <<status, zipHeaders, errorBody, idx>>
    /\ StreamFrame

\* ------------------------------------------------------------- link cache
\* timeout := time.Second * 60, handed to NewLinkCache by NewServer.
LinkTimeout == 60

\* LinkCache.Set(id, descriptor): the record is stored with the time of the
\* call; a record is never updated in place.
CacheSet(c, id, d, now) == [c EXCEPT ![id] = [present |-> TRUE, req |-> d, at |-> now]]

\* A record whose TTL has elapsed.
Expired(rec, now) == now - rec.at >= LinkTimeout

\* LinkCache.Get(id): the record's descriptor if found and not expired, nil
\* otherwise.
CacheGet(c, id, now) ==
    IF c[id].present /\ ~Expired(c[id], now) THEN c[id].req ELSE NilDescriptor

\* Mutant of LinkStatusFor: the nil test is lost and every lookup streams.
LinkStatusAlwaysStreams(d) == 200

\* HandleDownloadLink: 404 on a nil descriptor, else streamEntries (which
\* sends 200 for a descriptor with entries).
LinkStatusFor(d) == IF d = NilDescriptor THEN 404 ELSE 200

\* How old the record Set stored for an id is when Get is called: the id was
\* never set, or the call comes before, at or after the end of the 60 seconds.
AgeOf(rec, now) ==
    IF ~rec.present THEN "unset"
    ELSE IF now - rec.at < 60 THEN "before"
    ELSE IF now - rec.at = 60 THEN "at"
    ELSE "after"

\* HandleCreateLink: a fresh uuid, linkCache.Set(linkId, fileEntries).
HandleCreateLink ==
    /\ \E id \in {x \in LinkIds : ~stored[x].present}, d \in Descriptors :
          /\ cache' = CacheSet(cache, id, d, clock)
          /\ stored' = CacheSet(stored, id, d, clock)
    /\ UNCHANGED <<clock, dl, svars>>

\* HandleDownloadLink, first half: zipDescriptor := s.linkCache.Get(linkId).
LinkGet(r) ==
    /\ dl[r].pc = "idle"
    /\ \E id \in LinkIds :
          dl' = [dl EXCEPT ![r] = [@ EXCEPT !.pc = "got",
                                            !.id = id,
                                            !.got = CacheGet(cache, id, clock),
                                            !.age = AgeOf(stored[id], clock)]]
    /\ UNCHANGED <<cache, clock, stored, svars>>

\* HandleDownloadLink, second half: the answer.
LinkRespond(r) ==
    /\ dl[r].pc = "got"
    /\ dl' = [dl EXCEPT ![r] = [@ EXCEPT !.pc = "done",
                                         !.status = LinkStatusFor(dl[r].got),
                                         !.streams = (LinkStatusFor(dl[r].got) # 404)]]
    /\ UNCHANGED <<cache, clock, stored, svars>>

\* Expired records are reclaimed (lazily or by a sweep).
Reclaim ==
    /\ \E id \in LinkIds :
          /\ cache[id].present
          /\ Expired(cache[id], clock)
          /\ cache' = [cache EXCEPT ![id] = NoRecord]
    /\ UNCHANGED <<clock, stored, dl, svars>>

\* Time passes.
Tick ==
    /\ clock + TickSeconds <= MaxClock
    /\ clock' = clock + TickSeconds
    /\ UNCHANGED <<cache, stored, dl, svars>>

NextCache ==
    \/ HandleCreateLink
    \/ \E r \in 1..MaxRequests : LinkGet(r)
    \/ \E r \in 1..MaxRequests : LinkRespond(r)
    \/ Reclaim
    \/ Tick

\* The link cache under concurrent requests; no transfer is followed here.
InitCache ==
    /\ Init
    /\ build = "s3"
    /\ entries = << >>
    /\ flusher

SpecCache == InitCache /\ [][NextCache]_vars

Next ==
    \/ RejectEntries
    \/ BeginStream
    \/ AttemptS3
    \/ AttemptHttp
    \/ Exhausted
    \/ CreateHeader
    \/ CopyBody
    \/ FlushMember
    \/ Finish
    \/ ClientDisconnects
    \/ EndStream

Spec == Init /\ [][Next]_vars

TypeOK ==
    /\ build \in Builds
    /\ Len(entries) <= MaxEntries
    /\ pc \in {"start", "fetch", "header", "copy", "flush", "finish",
               "returned", "handled", "panic"}
    /\ i \in 0..NUM_RETRIES
    /\ Len(members) <= Len(entries)
    /\ Len(fetchLog) = Len(closes)

\* ------------------------------------------------------------- properties
\* StreamAllFiles is over: it returned, or it was unwound by a panic.
Over == pc \in {"returned", "handled", "panic"}

\* retryableGet returned a response and a nil error for entry k.
FetchOk(k) == fetchLog[k].err = "nil"

\* CreateHeader, io.Copy, Flush or Close failed.
SomeWriteFailed == bufErr \/ failStage \in {"header", "copy", "close"}

\* C1: when every entry's fetch succeeds and no write fails, StreamAllFiles
\* produces one member per entry, in input order, named with the entry's
\* ZipPath and holding the bytes of the fetched body, finalizes the archive
\* and returns nil.
C1_AllFetchedInOrder ==
    (/\ Over
     /\ Len(entries) > 0
     /\ \A k \in DOMAIN fetchLog : FetchOk(k)
     /\ ~SomeWriteFailed)
    => /\ result = "nil"
       /\ finalized
       /\ closeCalls = 1
       /\ Len(fetchLog) = Len(entries)
       /\ Len(members) = Len(entries)
       /\ \A k \in DOMAIN members :
             /\ members[k].name = entries[k].path
             /\ members[k].data = fetchLog[k].body
             /\ members[k].closed

\* C1 witness: a list with the same entry twice, fetched with different
\* bodies, streamed to the end.
C1_Witness ==
    /\ pc = "handled"
    /\ Len(entries) = 2
    /\ entries[1] = entries[2]
    /\ Len(fetchLog) = 2
    /\ FetchOk(1) /\ FetchOk(2)
    /\ fetchLog[1].body # fetchLog[2].body
    /\ finalized
    /\ result = "nil"

\* C2: when every entry's fetch fails (and no write does), StreamAllFiles
\* returns the all-files-failed error without calling zipWriter.Close, and the
\* success counter tested after the loop counts the fetched entries only.
C2_AllFailedIsAnError ==
    (/\ pc \in {"returned", "handled"}
     /\ Len(entries) > 0
     /\ Len(fetchLog) = Len(entries)
     /\ \A k \in DOMAIN fetchLog : ~FetchOk(k)
     /\ ~SomeWriteFailed)
    => /\ result = "empty file - all files failed"
       /\ closeCalls = 0
       /\ ~finalized
       /\ success = Cardinality({k \in DOMAIN fetchLog : FetchOk(k)})

\* C3: when at least one fetch succeeds and some fail (and no write or read of
\* a body does), StreamAllFiles does not stop at a failed entry: every entry
\* gets its member, empty for the failed entries and with the fetched body for
\* the others, the archive is finalized and nil is returned.
C3_PartialFailureFinalizes ==
    (/\ Over
     /\ \E k \in DOMAIN fetchLog : FetchOk(k)
     /\ \E k \in DOMAIN fetchLog : ~FetchOk(k)
     /\ ~SomeWriteFailed)
    => /\ result = "nil"
       /\ finalized
       /\ Len(members) = Len(entries)
       /\ \A k \in DOMAIN members :
             /\ members[k].name = entries[k].path
             /\ members[k].data = IF FetchOk(k) THEN fetchLog[k].body ELSE << >>

\* C3 without the panic of retryableGet: the runs in which StreamAllFiles
\* returns.
C3_WhenNoPanic == pc # "panic" => C3_PartialFailureFinalizes

\* C4: an entry whose fetch ended with a status other than 200 is a failed
\* entry: its body is not copied and its member stays empty.
C4_Non200IsFailedEntry ==
    /\ (pc = "flush" /\ resp.status # 200) => entryFailed
    /\ \A k \in DOMAIN members : fetchLog[k].status # 200 => members[k].data = << >>

\* A step of retryableGet that makes an attempt on the generic path.
C5_GenericAttempt ==
    /\ pc = "fetch"
    /\ i < 5
    /\ ~isS3URL(entries[idx].url)
    /\ i' # i \/ pc' # pc

\* C5: retryableGet makes at most 5 attempts per call; on the generic path an
\* attempt is followed by another one only if it ended in a transport error or
\* in a status of {408,429,500,502,503,504}, and a response with any other
\* status is returned on the attempt that received it.
C5_AttemptPolicy ==
    /\ [](i <= 5)
    /\ [][C5_GenericAttempt =>
            \/ /\ pc' = "fetch"
               /\ i' = i + 1
               /\ \/ last'.kind = "error"
                  \/ last'.kind = "status" /\ last'.code \in {408, 429, 500, 502, 503, 504}
            \/ /\ pc' = "header"
               /\ Len(fetchLog') = Len(fetchLog) + 1
               /\ fetchLog'[Len(fetchLog')].err = "nil"
               /\ fetchLog'[Len(fetchLog')].status \in Statuses \ {408, 429, 500, 502, 503, 504}
               /\ resp'.status = fetchLog'[Len(fetchLog')].status
            \/ pc' = "panic" /\ last'.kind = "error"]_vars

\* C5 witness: the fifth attempt on the generic path has been made and it
\* ended, like the four before it, without a result (a retryable status).
C5_Witness ==
    /\ pc = "fetch"
    /\ i = 5
    /\ ~isS3URL(entries[idx].url)
    /\ last.kind = "status"

\* C6: the sleep after failed attempt i is min(2^i, 30) seconds and no sleep
\* follows the fifth attempt.
C6_BackoffSchedule ==
    /\ Len(sleeps) <= 4
    /\ \A k \in DOMAIN sleeps : sleeps[k] = Min(2 ^ (k - 1), 30)

\* C7: on the generic path a transport error is retried and five of them make
\* retryableGet return (nil, error); it never ends otherwise, and never
\* returns (nil, nil).
C7_TransportErrorsRetried ==
    /\ pc # "panic"
    /\ \A k \in DOMAIN fetchLog : FetchOk(k) <=> fetchLog[k].status # 0

\* C8: when CreateHeader or io.Copy fails, StreamAllFiles returns that error
\* at once: no later entry is fetched, no further member is opened and
\* zipWriter.Close is not called.
C8_WriteErrorAborts ==
    failStage \in {"header", "copy"}
    => /\ pc \in {"returned", "handled"}
       /\ result \in {"write error", "read error"}
       /\ Len(fetchLog) = idx
       /\ Len(members) = IF failStage = "header" THEN idx - 1 ELSE idx
       /\ closeCalls = 0
       /\ ~finalized
       /\ i = 0

\* C8 witness: a copy or header error at an entry that is not the last one,
\* the handler having returned.
C8_Witness ==
    /\ failStage \in {"header", "copy"}
    /\ idx < Len(entries)
    /\ pc = "handled"

\* C9: whenever StreamAllFiles returned an error after the 200 status was
\* sent, the connection has been closed when streamEntries returns.
C9_ErrorClosesConnection ==
    (pc = "handled" /\ status = 200 /\ result # "nil") => conn = "closed"

\* C10: an empty entry list is rejected by NewZipStream before any fetch:
\* streamEntries answers 400 "invalid entries", sends neither the 200 status
\* nor the zip headers and writes nothing of an archive.
C10_EmptyRejected ==
    (Len(entries) = 0 /\ pc # "start")
    => /\ pc = "handled"
       /\ status = 400
       /\ errorBody = "invalid entries"
       /\ ~zipHeaders
       /\ members = << >>
       /\ fetchLog = << >>
       /\ last = NoAttempt
       /\ i = 0
       /\ flushed = 0
       /\ closeCalls = 0
       /\ result = "none"

\* C10 witness: the handler has answered a request with no entries.
C10_Witness == Len(entries) = 0 /\ pc = "handled" /\ status = 400

\* C11: under any interleaving of the handlers, a Get issued before the 60
\* seconds of its link have elapsed returns the descriptor the matching Set
\* stored; a Get issued after they elapsed, or for an id never set, returns
\* nil and HandleDownloadLink answers 404 without starting a stream.
C11_LinkCacheLookup ==
    \A r \in 1..MaxRequests :
       dl[r].pc \in {"got", "done"}
       => /\ dl[r].age = "before" =>
                /\ stored[dl[r].id].present
                /\ dl[r].got = stored[dl[r].id].req
          /\ dl[r].age \in {"after", "unset"} =>
                /\ dl[r].got = NilDescriptor
                /\ dl[r].pc = "done" => (dl[r].status = 404 /\ ~dl[r].streams)

\* C11 witness: one request answered 404 for a link whose 60 seconds had
\* elapsed, another one served from a link still alive, while both links are
\* registered with different descriptors.
C11_Witness ==
    \E r1, r2 \in 1..MaxRequests :
       /\ dl[r1].pc = "done" /\ dl[r1].age = "after" /\ dl[r1].status = 404
       /\ dl[r2].pc = "done" /\ dl[r2].age = "before" /\ dl[r2].streams
       /\ stored["id1"].present /\ stored["id2"].present
       /\ stored["id1"].req # stored["id2"].req

\* C12: once the sink has failed a write or a flush (the buffered writer holds
\* its error), no fetch attempt is made any more, for this or a later entry,
\* and StreamAllFiles returns a non-nil error.
C12_SinkFailureStopsFetching ==
    /\ []((bufErr /\ pc \in {"returned", "handled"}) => result \notin {"nil", "none"})
    /\ [][bufErr => (i' = i /\ fetchLog' = fetchLog)]_vars

\* C12, the part that holds: StreamAllFiles never returns nil once the sink
\* has failed.
C12_SinkFailureIsReturned ==
    (bufErr /\ pc \in {"returned", "handled"}) => result \notin {"nil", "none"}

C14_ClosedBeforeFlush ==
    pc \in {"flush", "fetch", "finish"} => \A k \in DOMAIN members : members[k].closed

\* C14 as amended: the code never closes a member itself; a member is closed,
\* and its data descriptor emitted, by the CreateHeader of the next member
\* (after the next entry's fetch) or, for the last member, by a successful
\* zipWriter.Close.
C14_ClosedByNextHeaderOrClose ==
    \A k \in DOMAIN members : members[k].closed <=> (k < Len(members) \/ finalized)

\* C14 witness: the second member has been written and flushed; the first one
\* is closed, the second one is not.
C14_Witness ==
    /\ pc \in {"fetch", "finish"}
    /\ Len(members) = 2
    /\ handed = 2
    /\ members[1].closed
    /\ ~members[2].closed

\* A step of retryableGet that makes an attempt on the object-store path.
C15_S3Attempt ==
    /\ pc = "fetch"
    /\ i < 5
    /\ isS3URL(entries[idx].url)
    /\ i' # i \/ pc' # pc

\* C15: on the object-store path an attempt is classified by its error only:
\* an attempt with an error uses up one of the 5 attempts and is followed by
\* the backoff of min(2^i, 30) seconds (none after the fifth attempt), and
\* the first attempt without an error is returned at once with status 200.
C15_S3AttemptPolicy ==
    /\ []((pc = "fetch" /\ isS3URL(entries[idx].url)) => (i <= 5 /\ last.kind # "status"))
    /\ [][C15_S3Attempt =>
            \/ /\ pc' = "fetch"
               /\ i' = i + 1
               /\ last'.kind = "error"
               /\ sleeps' = IF i < 4 THEN Append(sleeps, Min(2 ^ i, 30)) ELSE sleeps
            \/ /\ pc' = "header"
               /\ fetchLog'[Len(fetchLog')].err = "nil"
               /\ resp'.status = 200
               /\ ~entryFailed']_vars

\* C15 witness: five object-store attempts have failed; the sleeps were those
\* after the first four.
C15_Witness ==
    /\ pc = "fetch"
    /\ isS3URL(entries[idx].url)
    /\ i = 5
    /\ sleeps = <<1, 2, 4, 8>>

\* C16: zipWriter.Close is called at most once, only when every entry has
\* been processed and no error was returned before the end of the list;
\* after it no member is opened or written.
C16_FinalizedOnceAtEnd ==
    /\ [](/\ closeCalls <= 1
          /\ finalized => closeCalls = 1
          /\ closeCalls = 1 =>
                /\ pc \in {"returned", "handled"}
                /\ failStage \in {"none", "close"}
                /\ idx = Len(entries)
                /\ Len(fetchLog) = Len(entries)
                /\ Len(members) = Len(entries)
                /\ success = Len(entries))
    /\ [][closeCalls = 1 => (members' = members /\ closeCalls' = 1 /\ fetchLog' = fetchLog)]_vars

\* C16 witness: Close was called after two entries, the second of them failed,
\* and the handler has returned.
C16_Witness ==
    /\ closeCalls = 1
    /\ pc = "handled"
    /\ Len(entries) = 2
    /\ FetchOk(1)
    /\ ~FetchOk(2)

\* The bodies obtained from retryableGet and not closed yet.
OpenBodies == {k \in DOMAIN fetchLog : FetchOk(k) /\ closes[k] = 0}

\* C17: at most one fetched body is held at any time: the body of entry k is
\* released before the fetch of entry k+1 begins.
C17_OneBodyHeld ==
    /\ Cardinality(OpenBodies) <= 1
    /\ pc = "fetch" => OpenBodies = {}

\* C18: when StreamAllFiles has returned, on whatever path, every body
\* obtained from a successful fetch has been closed exactly once (and none is
\* closed before).
C18_BodiesClosedOnce ==
    /\ pc \in {"returned", "handled"} =>
          \A k \in DOMAIN fetchLog : closes[k] = IF FetchOk(k) THEN 1 ELSE 0
    /\ Streaming => \A k \in DOMAIN closes : closes[k] = 0

\* C18 witness: StreamAllFiles returned the error of the second CreateHeader
\* with two bodies fetched, both closed.
C18_Witness ==
    /\ pc = "handled"
    /\ failStage = "header"
    /\ Len(fetchLog) = 2
    /\ FetchOk(1) /\ FetchOk(2)
    /\ closes = <<1, 1>>

\* The bounds of C19 on the work done so far: the attempts made are those of
\* the idx-1 calls of retryableGet that are over, at most 5 each, and the i of
\* the call under way.
C19_Bounds ==
    /\ i <= 5
    /\ idx <= Len(entries)
    /\ Len(fetchLog) <= idx
    /\ (pc = "fetch" => Len(fetchLog) = idx - 1)
    /\ Len(members) <= Len(entries)

\* C19: StreamAllFiles always terminates by returning nil or an error, after
\* at most 5*n fetch attempts and at most n member headers: as long as it has
\* not returned a step is possible, and every step respects the bounds.
C19_TerminatesByReturning ==
    /\ pc \in {"returned", "handled"} \/ ENABLED Next
    /\ C19_Bounds

\* C19 in the runs without the panic of retryableGet.
C19_WhenNoPanic == pc # "panic" => C19_TerminatesByReturning

====
